---- MODULE Spec2Model ----
(***************************************************************************)
(* Model of decode-ways (main.go): the shared Fibonacci cache (f, maxFib,  *)
(* fib) and the single-pass validator/counter getPossibleCombinations.     *)
(*                                                                         *)
(* big.Int values live in a heap `mem`; a *big.Int is an address into it,  *)
(* so that f holds pointers exactly as the Go slice does and x.Mul / c.Add *)
(* write through their receiver.  Go slices are 0-indexed, TLA+ sequences  *)
(* 1-indexed: Go's s[i] is At(s, i).                                       *)
(***************************************************************************)
EXTENDS Integers, Sequences, FiniteSets, TLC

VARIABLES
    f,            \* main.go:47  the cache table, a sequence of addresses
    maxFib,       \* main.go:51
    mem,          \* the heap of big.Int values; addresses are 1..Len(mem)
    pc,           \* "idle" | "loop" | "panic: p[0]" | "panic: f[]"
    p,            \* the byte slice of the running getPossibleCombinations
    idx,          \* the loop variable i of `for i, b := range p[1:]`
    a,            \* previous digit
    clusterSize,  \* current cluster size
    x,            \* address of the running product
    fibN,         \* argument of the fib call made by the last step, -1 if none
    fibRet,       \* address returned by that fib call, 0 if none
    todo,         \* the byte sequences the host is still going to count
    log           \* outcomes of the completed getPossibleCombinations calls

vars == <<f, maxFib, mem, pc, p, idx, a, clusterSize, x, fibN, fibRet, todo, log>>

----------------------------------------------------------------------------
(* Bounds *)

MaxLen == 4        \* longest byte sequence handed to getPossibleCombinations
MaxFibArg == 5     \* largest index of a direct fib call
MaxFibLen == 5     \* longest sequence counted next to direct fib calls
MaxDetLen == 3     \* longest sequence in the repeated-call scenario
MaxMulLen == 2     \* longest u, v in the concatenation scenario

(* ASCII codes compared against in main.go *)
Ch0 == 48          \* 0x30 '0'
Ch1 == 49          \* 0x31 '1'
Ch2 == 50          \* 0x32 '2'
Ch6 == 54          \* 0x36 '6'
Ch9 == 57          \* 0x39 '9'

(* Representative bytes: '/', '0', '1', '2', '3', '6', '7', 'a' *)
Bytes == {47, 48, 49, 50, 51, 54, 55, 97}
FibBytes == {48, 49, 50, 55}
DetBytes == {48, 49, 55}
MulBytes == {48, 49, 50, 54, 55}

RECURSIVE SeqsOfLen(_, _)
SeqsOfLen(S, n) ==
    IF n = 0 THEN {<<>>}
    ELSE {Append(s, b) : s \in SeqsOfLen(S, n - 1), b \in S}

SeqsUpTo(S, n) == UNION {SeqsOfLen(S, k) : k \in 0..n}

NonEmptyUpTo(S, n) == UNION {SeqsOfLen(S, k) : k \in 1..n}

----------------------------------------------------------------------------
(* Go slices and math/big *)

At(s, i) == s[i + 1]

InRange(s, i) == i >= 0 /\ i < Len(s)

\* big.NewInt(v) handing out an existing big.Int that already holds v
NewIntShared(m, v) ==
    IF \E k \in DOMAIN m : m[k] = v
    THEN [mem |-> m, ptr |-> CHOOSE k \in DOMAIN m : m[k] = v]
    ELSE [mem |-> Append(m, v), ptr |-> Len(m) + 1]

\* big.NewInt(v): a fresh big.Int holding v
NewInt(m, v) == [mem |-> Append(m, v), ptr |-> Len(m) + 1]

\* z.Mul(u, v): sets z to u*v
Mul(m, z, u, v) == [m EXCEPT ![z] = m[u] * m[v]]

\* c := big.Int{}; c.Add(u, v): a fresh big.Int set to u+v, returns &c
AddFresh(m, u, v) == [mem |-> Append(m, m[u] + m[v]), ptr |-> Len(m) + 1]

----------------------------------------------------------------------------
(* The Fibonacci cache *)

\* the loop of fib stopping one entry early (maxFib < n)
RECURSIVE fibLoopShort(_, _)
fibLoopShort(s, n) ==
    IF s.panic \/ ~(s.maxFib < n) THEN s
    ELSE IF ~InRange(s.f, s.maxFib - 1) \/ ~InRange(s.f, s.maxFib - 2)
         THEN [s EXCEPT !.panic = TRUE]
         ELSE LET c == AddFresh(s.mem, At(s.f, s.maxFib - 1), At(s.f, s.maxFib - 2))
              IN  fibLoopShort([f |-> Append(s.f, c.ptr), maxFib |-> s.maxFib + 1,
                                mem |-> c.mem, panic |-> FALSE], n)

\* the for loop of fib; s = [f, maxFib, mem, panic]
RECURSIVE fibLoop(_, _)
fibLoop(s, n) ==
    IF s.panic \/ ~(s.maxFib <= n) THEN s
    ELSE IF ~InRange(s.f, s.maxFib - 1) \/ ~InRange(s.f, s.maxFib - 2)
         THEN [s EXCEPT !.panic = TRUE]
         ELSE LET c == AddFresh(s.mem, At(s.f, s.maxFib - 1), At(s.f, s.maxFib - 2))
              IN  fibLoop([f |-> Append(s.f, c.ptr), maxFib |-> s.maxFib + 1,
                           mem |-> c.mem, panic |-> FALSE], n)

\* fib returning the newest entry, f[maxFib-1], instead of f[n]
fibNewest(tf, tmax, m, n) ==
    LET s == fibLoop([f |-> tf, maxFib |-> tmax, mem |-> m, panic |-> FALSE], n)
    IN  IF s.panic \/ ~InRange(s.f, s.maxFib - 1)
        THEN [f |-> s.f, maxFib |-> s.maxFib, mem |-> s.mem, panic |-> TRUE, ret |-> 0]
        ELSE [f |-> s.f, maxFib |-> s.maxFib, mem |-> s.mem, panic |-> FALSE,
              ret |-> At(s.f, s.maxFib - 1)]

\* fib(n) run on the cache (tf, tmax, m); ret is the returned pointer
fib(tf, tmax, m, n) ==
    LET s == fibLoop([f |-> tf, maxFib |-> tmax, mem |-> m, panic |-> FALSE], n)
    IN  IF s.panic \/ ~InRange(s.f, n)
        THEN [f |-> s.f, maxFib |-> s.maxFib, mem |-> s.mem, panic |-> TRUE, ret |-> 0]
        ELSE [f |-> s.f, maxFib |-> s.maxFib, mem |-> s.mem, panic |-> FALSE,
              ret |-> At(s.f, n)]

----------------------------------------------------------------------------
(* getPossibleCombinations *)

NoError == [msg |-> "", ch |-> -1, pos |-> -1]

ErrLeadingZero == [msg |-> "string starts with 0", ch |-> -1, pos |-> -1]

ErrNonDigitStart ==
    [msg |-> "string starts with non-digit character", ch |-> -1, pos |-> -1]

ErrNonDigit(i) ==
    [msg |-> "encountered non-digit character at pos. %d", ch |-> -1, pos |-> i]

ErrBadZero(prev, i) ==
    [msg |-> "encountered 0 which can not be attached to %c at pos. %d",
     ch |-> prev, pos |-> i]

\* a < 0x31 || a > 0x39
NotOneToNine(c) == c < Ch1 \/ c > Ch9

\* b < 0x30 || b > 0x39
NotDigit(b) == b < Ch0 \/ b > Ch9

\* the zero check without its a != 0x32 conjunct
InvalidZeroNoTwenty(c, b) == b = Ch0 /\ c # Ch1

\* b == 0x30 && a != 0x31 && a != 0x32
InvalidZero(c, b) == b = Ch0 /\ c # Ch1 /\ c # Ch2

\* the cluster test without its b <= 0x36 conjunct
InClusterNoUpper(c, b) == (c = Ch1 /\ b > Ch0) \/ (c = Ch2 /\ b > Ch0)

\* (a == 0x31 && b > 0x30) || (a == 0x32 && b > 0x30 && b <= 0x36)
InCluster(c, b) == (c = Ch1 /\ b > Ch0) \/ (c = Ch2 /\ b > Ch0 /\ b <= Ch6)

\* an offset of 1 instead of 2
FibIndexOffByOne(cs) == cs + 1

\* the index handed to fib for a cluster
FibIndex(cs) == cs + 2

\* returning the running product together with the error
ErrValuePartial(m, xp) == [mem |-> m, ptr |-> xp]

\* the value of the first return operand on a validation error
ErrValue(m, xp) == NewInt(m, 0)

\* the position formatted into an error raised inside the loop
ErrPos(i) == i

\* the flush without its clusterSize = 0
ClusterKept(cs) == cs

\* clusterSize after a cluster has been multiplied in
ClusterAfterFlush(cs) == 0

\* return v, e: the frame is dropped and the host records the outcome
Return(q, m, v, e) ==
    /\ mem' = m
    /\ log' = Append(log, [p |-> q, val |-> m[v], err |-> e])
    /\ pc' = "idle"
    /\ p' = <<>>
    /\ idx' = 0
    /\ a' = 0
    /\ clusterSize' = 0
    /\ x' = 0

\* a run-time panic (index out of range) ends the process
Panic(kind) ==
    /\ pc' = kind
    /\ UNCHANGED <<idx, a, clusterSize, x, log>>

\* lines 100-110: entry, locals and the check of the first byte
Call ==
    /\ pc = "idle"
    /\ todo # <<>>
    /\ todo' = Tail(todo)
    /\ fibN' = -1
    /\ fibRet' = 0
    /\ UNCHANGED <<f, maxFib>>
    /\ LET q == Head(todo)
           nx == NewInt(mem, 1)
       IN  IF ~InRange(q, 0)
           THEN /\ Panic("panic: p[0]")
                /\ p' = q
                /\ mem' = nx.mem
           ELSE IF At(q, 0) = Ch0
                THEN LET r == ErrValue(nx.mem, nx.ptr)
                     IN  Return(q, r.mem, r.ptr, ErrLeadingZero)
                ELSE IF NotOneToNine(At(q, 0))
                     THEN LET r == ErrValue(nx.mem, nx.ptr)
                          IN  Return(q, r.mem, r.ptr, ErrNonDigitStart)
                     ELSE /\ pc' = "loop"
                          /\ p' = q
                          /\ idx' = 0
                          /\ a' = At(q, 0)
                          /\ clusterSize' = 0
                          /\ x' = nx.ptr
                          /\ mem' = nx.mem
                          /\ UNCHANGED log

\* lines 130-135 and 141-143: x.Mul(x, fib(clusterSize+2)); the frame continues
\* with clusterSize cs and at loop index i (or returns x when last is TRUE)
Flush(cs, i, b, last) ==
    LET r == fib(f, maxFib, mem, FibIndex(clusterSize))
    IN  /\ fibN' = FibIndex(clusterSize)
        /\ fibRet' = r.ret
        /\ f' = r.f
        /\ maxFib' = r.maxFib
        /\ IF r.panic
           THEN /\ Panic("panic: f[]")
                /\ mem' = r.mem
                /\ UNCHANGED p
           ELSE LET m == Mul(r.mem, x, x, r.ret)
                IN  IF last
                    THEN Return(p, m, x, NoError)
                    ELSE /\ mem' = m
                         /\ clusterSize' = cs
                         /\ idx' = i
                         /\ a' = b
                         /\ UNCHANGED <<pc, p, x, log>>

\* lines 113-138: one iteration of the loop over p[1:]
Step ==
    /\ pc = "loop"
    /\ InRange(p, idx + 1)
    /\ UNCHANGED todo
    /\ LET i == idx
           b == At(p, idx + 1)
       IN  IF NotDigit(b)
           THEN /\ LET r == ErrValue(mem, x)
                   IN  Return(p, r.mem, r.ptr, ErrNonDigit(ErrPos(i)))
                /\ fibN' = -1
                /\ fibRet' = 0
                /\ UNCHANGED <<f, maxFib>>
           ELSE IF InvalidZero(a, b)
                THEN /\ LET r == ErrValue(mem, x)
                        IN  Return(p, r.mem, r.ptr, ErrBadZero(a, ErrPos(i)))
                     /\ fibN' = -1
                     /\ fibRet' = 0
                     /\ UNCHANGED <<f, maxFib>>
                ELSE IF InCluster(a, b)
                     THEN /\ clusterSize' = clusterSize + 1
                          /\ idx' = i + 1
                          /\ a' = b
                          /\ fibN' = -1
                          /\ fibRet' = 0
                          /\ UNCHANGED <<f, maxFib, mem, pc, p, x, log>>
                     ELSE IF clusterSize > 0
                          THEN Flush(ClusterAfterFlush(clusterSize), i + 1, b, FALSE)
                          ELSE /\ idx' = i + 1
                               /\ a' = b
                               /\ fibN' = -1
                               /\ fibRet' = 0
                               /\ UNCHANGED <<f, maxFib, mem, pc, p, x,
                                              clusterSize, log>>

\* lines 140-145: the loop is over; flush an open cluster and return x
Finish ==
    /\ pc = "loop"
    /\ ~InRange(p, idx + 1)
    /\ UNCHANGED todo
    /\ IF clusterSize > 0
       THEN Flush(clusterSize, idx, a, TRUE)
       ELSE /\ Return(p, mem, x, NoError)
            /\ fibN' = -1
            /\ fibRet' = 0
            /\ UNCHANGED <<f, maxFib>>

\* a call fib(n) made on its own, between two counting calls
FibCall ==
    /\ pc = "idle"
    /\ \E n \in 0..MaxFibArg :
          LET r == fib(f, maxFib, mem, n)
          IN  /\ fibN' = n
              /\ fibRet' = r.ret
              /\ f' = r.f
              /\ maxFib' = r.maxFib
              /\ mem' = r.mem
              /\ IF r.panic THEN pc' = "panic: f[]" ELSE pc' = pc
    /\ UNCHANGED <<p, idx, a, clusterSize, x, todo, log>>

----------------------------------------------------------------------------
(* Specifications *)

\* lines 47-51: the package-level variables after program load
InitCache ==
    /\ mem = <<0, 1>>
    /\ f = <<1, 2>>
    /\ maxFib = 2

InitFrame ==
    /\ pc = "idle"
    /\ p = <<>>
    /\ idx = 0
    /\ a = 0
    /\ clusterSize = 0
    /\ x = 0
    /\ fibN = -1
    /\ fibRet = 0
    /\ log = <<>>

\* main: one counting call on the bytes of the file
Init ==
    /\ InitCache
    /\ InitFrame
    /\ todo \in {<<q>> : q \in SeqsUpTo(Bytes, MaxLen)}

Next == Call \/ Step \/ Finish

Spec == Init /\ [][Next]_vars

\* one counting call with direct fib calls before and after it
InitFib ==
    /\ InitCache
    /\ InitFrame
    /\ todo \in {<<q>> : q \in SeqsUpTo(FibBytes, MaxFibLen)}

NextFib == Call \/ Step \/ Finish \/ FibCall

SpecFib == InitFib /\ [][NextFib]_vars

\* count q, then r, then q again
InitDet ==
    /\ InitCache
    /\ InitFrame
    /\ todo \in {<<q, r, q>> : q \in NonEmptyUpTo(DetBytes, MaxDetLen),
                               r \in NonEmptyUpTo(DetBytes, MaxDetLen)}

SpecDet == InitDet /\ [][Next]_vars

\* count u, then v, then u ++ v
InitMul ==
    /\ InitCache
    /\ InitFrame
    /\ todo \in {<<u, v, u \o v>> : u \in NonEmptyUpTo(MulBytes, MaxMulLen),
                                   v \in NonEmptyUpTo(MulBytes, MaxMulLen)}

SpecMul == InitMul /\ [][Next]_vars

----------------------------------------------------------------------------
(* Reference notions the properties are stated with *)

Digit(c) == c \in 48..57

\* the two-digit code formed by adjacent digits c, b
Code2(c, b) == (c - 48) * 10 + (b - 48)

AmbiguousPair(c, b) ==
    Digit(c) /\ Digit(b) /\ Code2(c, b) \in (11..19) \cup (21..26)

RECURSIVE F(_)
F(n) == IF n = 0 THEN 0 ELSE IF n = 1 THEN 1 ELSE F(n - 1) + F(n - 2)

\* byte k of s (1-based) breaks a validation rule
Violates(s, k) ==
    IF k = 1 THEN s[1] \notin 49..57
    ELSE \/ ~Digit(s[k])
         \/ s[k] = 48 /\ s[k - 1] \notin {49, 50}

Violations(s) == {k \in 1..Len(s) : Violates(s, k)}

Accepted(s) == Len(s) > 0 /\ Violations(s) = {}

\* 1-based index of the leftmost violating byte
FirstViolation(s) == CHOOSE k \in Violations(s) : \A j \in Violations(s) : k <= j

\* number of ways to split s[k..] into codes 1..9 and 10..26
RECURSIVE WaysFrom(_, _)
WaysFrom(s, k) ==
    IF k > Len(s) THEN 1
    ELSE (IF s[k] \in 49..57 THEN WaysFrom(s, k + 1) ELSE 0)
         + (IF k < Len(s) /\ Digit(s[k]) /\ Digit(s[k + 1])
               /\ Code2(s[k], s[k + 1]) \in 10..26
            THEN WaysFrom(s, k + 2) ELSE 0)

Ways(s) == WaysFrom(s, 1)

\* maximal runs <<i, j>> of ambiguous adjacent pairs; pair k is (s[k], s[k+1])
AmbAt(s, k) == AmbiguousPair(s[k], s[k + 1])

Runs(s) ==
    {r \in (1..(Len(s) - 1)) \X (1..(Len(s) - 1)) :
        /\ r[1] <= r[2]
        /\ \A k \in r[1]..r[2] : AmbAt(s, k)
        /\ (r[1] = 1 \/ ~AmbAt(s, r[1] - 1))
        /\ (r[2] = Len(s) - 1 \/ ~AmbAt(s, r[2] + 1))}

RECURSIVE ProductOver(_)
ProductOver(R) ==
    IF R = {} THEN 1
    ELSE LET r == CHOOSE t \in R : TRUE
         IN  F(r[2] - r[1] + 1 + 2) * ProductOver(R \ {r})

RunProduct(s) == ProductOver(Runs(s))

AllOnes(s) == Len(s) >= 1 /\ \A k \in 1..Len(s) : s[k] = 49

Entries == {log[k] : k \in DOMAIN log}

----------------------------------------------------------------------------
(* Properties *)

\* C1: every accepted sequence is counted as the number of its distinct
\* decodings (splits into codes 1..9 and 10..26).
C1_CountsDecodings ==
    \A e \in Entries :
        Accepted(e.p) => e.err = NoError /\ e.val = Ways(e.p)

\* C2: the outcome is decided by the leftmost violating byte: a leading '0',
\* a non-digit start, a later non-digit, or a later '0' whose preceding digit
\* (named in the error) is not '1' or '2'; a sequence with no violation succeeds.
C2_LeftmostViolation ==
    \A e \in Entries :
        IF Violations(e.p) = {} THEN e.err = NoError
        ELSE LET k == FirstViolation(e.p)
             IN  IF k = 1
                 THEN IF e.p[1] = 48 THEN e.err = ErrLeadingZero
                      ELSE e.err = ErrNonDigitStart
                 ELSE IF ~Digit(e.p[k])
                      THEN e.err.msg = ErrNonDigit(0).msg /\ e.err.ch = -1
                      ELSE e.err.msg = ErrBadZero(0, 0).msg /\ e.err.ch = e.p[k - 1]

\* a call rejected for an invalid zero although a non-digit follows further right
C2_Witness ==
    \E e \in Entries :
        /\ Len(e.p) = 4
        /\ FirstViolation(e.p) = 3
        /\ e.p[3] = 48
        /\ ~Digit(e.p[4])
        /\ e.err.msg = ErrBadZero(0, 0).msg

\* C3: an error raised on a byte after the first carries the index of that
\* byte in the sequence passed to the call.
C3_PositionIsIndex ==
    \A e \in Entries :
        e.err.pos >= 0 => e.err.pos = FirstViolation(e.p) - 1

\* C4: every error comes with the value 0, never with a partial product.
C4_NoPartialCount ==
    \A e \in Entries : e.err # NoError => e.val = 0

\* a call that failed after a cluster had been multiplied into the product
C4_Witness ==
    \E e \in Entries :
        /\ Len(e.p) = 4
        /\ AmbAt(e.p, 1)
        /\ Digit(e.p[3])
        /\ ~AmbAt(e.p, 2)
        /\ e.err.msg = ErrNonDigit(0).msg
        /\ e.val = 0

\* C5: n consecutive '1' bytes (n >= 1) are accepted and counted as F(n+1),
\* whatever the cache held before the call.
C5_AllOnes ==
    \A e \in Entries :
        AllOnes(e.p) => e.err = NoError /\ e.val = F(Len(e.p) + 1)

\* "11" has just been counted with F(3) found in a cache grown beforehand
C5_Witness ==
    /\ Len(log) = 1
    /\ AllOnes(log[1].p)
    /\ Len(log[1].p) = 2
    /\ log[1].val = 2
    /\ fibN = 3
    /\ maxFib > 4

\* C6: for accepted u and v whose boundary pair is not ambiguous, u ++ v is
\* accepted and its count is the product of the counts of u and v.
C6_Multiplicative ==
    (/\ Len(log) = 3
     /\ log[3].p = log[1].p \o log[2].p
     /\ log[1].err = NoError
     /\ log[2].err = NoError
     /\ ~AmbiguousPair(log[1].p[Len(log[1].p)], log[2].p[1]))
    => /\ log[3].err = NoError
       /\ log[3].val = log[1].val * log[2].val

\* both halves contribute a factor above 1
C6_Witness ==
    /\ Len(log) = 3
    /\ log[3].p = log[1].p \o log[2].p
    /\ log[1].err = NoError
    /\ log[2].err = NoError
    /\ ~AmbiguousPair(log[1].p[Len(log[1].p)], log[2].p[1])
    /\ log[1].val > 1
    /\ log[2].val > 1
    /\ log[3].val = log[1].val * log[2].val

\* the cache entries stored before a step are all still there after it
CacheGrows ==
    /\ Len(f') >= Len(f)
    /\ maxFib' >= maxFib
    /\ \A k \in 1..Len(f) : f'[k] = f[k] /\ mem'[f[k]] = mem[f[k]]

\* C7: two calls on the same bytes give the same outcome whatever was counted
\* in between; a call leaves its input bytes alone and only grows the cache.
C7_Deterministic ==
    [][/\ \A i, j \in DOMAIN log' : log'[i].p = log'[j].p => log'[i] = log'[j]
       /\ (pc = "loop" /\ pc' = "loop" => p' = p)
       /\ (pc = "loop" /\ pc' = "idle" => log'[Len(log')].p = p)
       /\ CacheGrows]_vars

\* a sequence counted twice with a cache-growing call in between
C7_Witness ==
    /\ Len(log) = 3
    /\ log[1].p = log[3].p
    /\ log[1].err = NoError
    /\ log[2].err = NoError
    /\ log[1].val = 2
    /\ log[2].val > 2
    /\ log[3].val = 2

\* C8: maxFib is the table length, the table holds F(0), F(1) and satisfies
\* the recurrence, no fib call reads outside the table, and fib(n) returns F(n).
C8_TableCorrect ==
    /\ maxFib = Len(f)
    /\ mem[f[1]] = 0
    /\ mem[f[2]] = 1
    /\ \A i \in 3..Len(f) : mem[f[i]] = mem[f[i - 1]] + mem[f[i - 2]]
    /\ pc # "panic: f[]"
    /\ fibN >= 0 => fibRet \in DOMAIN mem /\ mem[fibRet] = F(fibN)

\* a fib call below the frontier of a grown table
C8_Witness ==
    /\ fibN >= 2
    /\ fibN < maxFib - 1
    /\ maxFib > 4
    /\ mem[fibRet] = F(fibN)

\* C9: fib(n) below the frontier changes nothing; at or beyond it, it keeps
\* every stored entry and extends the table to exactly n+1 entries; the
\* multiplications of getPossibleCombinations never change a stored entry.
C9_AppendOnly ==
    [][/\ CacheGrows
       /\ IF fibN' >= 0 /\ fibN' >= maxFib
          THEN Len(f') = fibN' + 1 /\ maxFib' = fibN' + 1
          ELSE f' = f /\ maxFib' = maxFib]_vars

\* a loop iteration has just extended the table and multiplied the product
C9_Witness ==
    /\ pc = "loop"
    /\ fibN >= 3
    /\ maxFib = fibN + 1
    /\ mem[x] = mem[fibRet]
    /\ mem[x] >= 2

\* C10: the result is the product of F(k+2) over the maximal runs of k
\* ambiguous pairs (1 when there is none), and during the scan the cluster
\* counter is positive exactly when the last pair processed was ambiguous.
C10_RunProduct ==
    /\ \A e \in Entries :
          Accepted(e.p) => e.err = NoError /\ e.val = RunProduct(e.p)
    /\ pc = "loop" /\ idx >= 1 =>
          (clusterSize > 0 <=> AmbiguousPair(p[idx], p[idx + 1]))

\* two separate runs, the second one reaching the end of the sequence
C10_Witness ==
    \E e \in Entries :
        /\ e.err = NoError
        /\ Cardinality(Runs(e.p)) = 2
        /\ AmbAt(e.p, Len(e.p) - 1)
        /\ e.val = 4

====
